---- MODULE Spec2Model ----
(***************************************************************************)
(* State-machine model of combine.py: extract_spec (a regular-expression   *)
(* capture over the text of one document) and merge_html_files (read every *)
(* document, reconcile the titles, assemble the dashboard, write it).      *)
(*                                                                         *)
(* Text is a sequence of one-character strings.  The emoji that prefixes   *)
(* the titles in the source is written U+1F4CA etc. (the module is ASCII). *)
(***************************************************************************)
EXTENDS Integers, Sequences, FiniteSets, TLC

\* ------------------------------------------------------------------ bounds

\* Longest file_paths list a caller passes.
MaxFiles == 4
\* Longest titles list a caller passes.
MaxTitles == 2
\* Longest text (in pieces of TextPieces) handed to extract_spec on its own.
MaxLen == 5

\* ------------------------------------------------------------------ text

\* The literal "var spec = " of the pattern, character by character.
Prefix == <<"v", "a", "r", " ", "s", "p", "e", "c", " ", "=", " ">>

\* The '{}' returned when nothing matches / appended for a missing file.
EmptySpec == <<"{", "}">>

Min(a, b) == IF a < b THEN a ELSE b

\* text[s..] begins with the literal lit.
HasLiteralAt(text, lit, s) ==
  /\ s >= 1
  /\ s + Len(lit) - 1 <= Len(text)
  /\ \A k \in 1..Len(lit) : text[s + k - 1] = lit[k]

\* '.' under re.DOTALL matches every character, the newline included.
Dot(c) == TRUE

\* The lazy '.*?' followed by '});' : the first position e >= b with
\* text[e] = "}" and text[e+1] = ";", every character of text[b..e-1] being
\* matched by '.'; 0 when the rest of the text offers none.
RECURSIVE LazyEnd(_, _)
LazyEnd(text, e) ==
  IF e + 1 > Len(text) THEN 0
  ELSE IF text[e] = "}" /\ text[e + 1] = ";" THEN e
  ELSE IF Dot(text[e]) THEN LazyEnd(text, e + 1)
  ELSE 0

\* An attempt to match the whole pattern with its first character at s:
\* the position of the closing brace of group 1, or 0.
MatchAt(text, s) ==
  IF /\ HasLiteralAt(text, Prefix, s)
     /\ s + Len(Prefix) <= Len(text)
     /\ text[s + Len(Prefix)] = "{"
  THEN LazyEnd(text, s + Len(Prefix) + 1)
  ELSE 0

NoMatch == [start |-> 0, end |-> 0]

\* re.search: the match attempts run over the start positions left to right
\* and the first that succeeds is the match.
RECURSIVE re_search(_, _)
re_search(text, s) ==
  IF s > Len(text) THEN NoMatch
  ELSE IF MatchAt(text, s) # 0 THEN [start |-> s, end |-> MatchAt(text, s) + 1]
  ELSE re_search(text, s + 1)

\* group(0) instead of group(1): the whole match, 'var spec = ' and ';' included.
extract_spec_group0(html_content) ==
  LET spec_match == re_search(html_content, 1)
  IN  IF spec_match # NoMatch
      THEN SubSeq(html_content, spec_match.start, spec_match.end)
      ELSE EmptySpec

extract_spec(html_content) ==
  LET spec_match == re_search(html_content, 1)
  IN  IF spec_match # NoMatch
      THEN SubSeq(html_content, spec_match.start + Len(Prefix), spec_match.end - 1)
      ELSE EmptySpec

\* ------------------------------------------------------------------ inputs

\* The i-th path of the list passed as file_paths.
PathAt(i) == "doc" \o ToString(i) \o ".html"

\* The path passed as output_path.
OutputPath == "index.html"

\* The texts a readable document holds: one with the assignment, one without.
TextA == <<"<">> \o Prefix \o <<"{", "a", "}", ";", ">">>
TextB == <<"<", "p", ">">>
Contents == {TextA, TextB}

\* What open()/read() of a document yields during a run: its text, "missing"
\* (FileNotFoundError), or "unreadable" (any other error: PermissionError or
\* IsADirectoryError raised by open, UnicodeDecodeError raised by read).
Outcomes == Contents \cup {<<"missing">>, <<"unreadable">>}
Missing == <<"missing">>
Unreadable == <<"unreadable">>

\* The list the caller passes as titles, when it passes one.
CallerTitle(j) == "Custom title " \o ToString(j)

\* The list built when titles is None.
DefaultTitles ==
  << "U+1F4CA Expenditure and Contribution Analysis",
     "U+1F5FA Geographic Distribution by County",
     "U+1F4C8 Additional Analysis" >>

\* ------------------------------------------------------------------ documents

\* What the output path holds before the first run.
OldDoc == [kind |-> "old"]
\* What it holds after open(output_path, 'w') and before write().
TruncatedDoc == [kind |-> "truncated"]
NoDoc == [kind |-> "none"]
NoPrev == [status |-> "none"]
\* titles_at_call when the caller passed no titles.
NoTitles == <<"None">>

\* ------------------------------------------------------------------ state

VARIABLES
  file_paths,     \* argument: the list of paths
  disk,           \* disk[i]: what reading file_paths[i] yields
  out_writable,   \* whether output_path can be opened for writing
  out_file,       \* the content of output_path
  titles,         \* the local name titles: "None" or a reference into heap
  heap,           \* the two list objects: the caller's list and the list built from the defaults
  titles_at_call, \* the caller's list as it was when the call began
  specs, i, html_content, spec,
  merged_html,    \* the assembled document, NoDoc before it is assembled
  handles,        \* the paths with an open file handle
  out_opens,      \* how many times this run opened output_path
  log,            \* the lines printed by this run
  pc,
  rerun,          \* FALSE in the first call, TRUE in the second
  prev            \* what the first call was given and what it left

vars == <<file_paths, disk, out_writable, out_file, titles, heap, titles_at_call,
          specs, i, html_content, spec, merged_html, handles, out_opens, log,
          pc, rerun, prev>>

\* ------------------------------------------------------------------ merge_html_files

\* The padding title numbered from 0: len(titles) in place of len(titles) + 1.
PadTitle_zero_based(ts) == "U+1F4CA Visualization " \o ToString(Len(ts))

\* titles.append(f"U+1F4CA Visualization {len(titles) + 1}")
PadTitle(ts) == "U+1F4CA Visualization " \o ToString(Len(ts) + 1)

\* while len(titles) < len(file_paths): titles.append(...)
RECURSIVE PadTitles(_, _)
PadTitles(ts, n) ==
  IF Len(ts) < n THEN PadTitles(Append(ts, PadTitle(ts)), n) ELSE ts

\* titles[:len(file_paths)]
Slice(ts, n) == SubSeq(ts, 1, Min(Len(ts), n))

\* Entry of merge_html_files: the default list for titles = None, then the
\* padding loop, which appends to the list object titles refers to.
EnterMerge ==
  /\ pc = "call"
  /\ LET ref == IF titles = "None" THEN "default_list" ELSE titles
         h1  == IF titles = "None"
                THEN [heap EXCEPT !["default_list"] = DefaultTitles]
                ELSE heap
     IN  /\ titles' = ref
         /\ heap' = [h1 EXCEPT ![ref] = PadTitles(h1[ref], Len(file_paths))]
  /\ specs' = <<>>
  /\ i' = 1
  /\ pc' = "loop"
  /\ UNCHANGED <<file_paths, disk, out_writable, out_file, titles_at_call,
                 html_content, spec, merged_html, handles, out_opens, log, rerun, prev>>

InLoop == pc = "loop" /\ i <= Len(file_paths)

\* with open(file_path, 'r', encoding='utf-8') as f: the open succeeds.
OpenDoc ==
  /\ InLoop
  /\ disk[i] # Missing
  /\ handles' = handles \cup {file_paths[i]}
  /\ pc' = "read"
  /\ UNCHANGED <<file_paths, disk, out_writable, out_file, titles, heap, titles_at_call,
                 specs, i, html_content, spec, merged_html, out_opens, log, rerun, prev>>

\* The except clause without its specs.append('{}'): the later documents move up.
OpenNotFound_no_append ==
  /\ InLoop
  /\ disk[i] = Missing
  /\ log' = Append(log, [kind |-> "warning", pos |-> 0, path |-> file_paths[i]])
  /\ i' = i + 1
  /\ UNCHANGED <<file_paths, disk, out_writable, out_file, titles, heap, titles_at_call,
                 specs, html_content, spec, merged_html, handles, out_opens, pc, rerun, prev>>

\* open raises FileNotFoundError: the except clause warns and appends '{}'.
OpenNotFound ==
  /\ InLoop
  /\ disk[i] = Missing
  /\ log' = Append(log, [kind |-> "warning", pos |-> 0, path |-> file_paths[i]])
  /\ specs' = Append(specs, EmptySpec)
  /\ i' = i + 1
  /\ UNCHANGED <<file_paths, disk, out_writable, out_file, titles, heap, titles_at_call,
                 html_content, spec, merged_html, handles, out_opens, pc, rerun, prev>>

\* open raises an error that is no FileNotFoundError (PermissionError,
\* IsADirectoryError): no except clause matches and the call is left.
OpenError ==
  /\ InLoop
  /\ disk[i] = Unreadable
  /\ pc' = "raised"
  /\ UNCHANGED <<file_paths, disk, out_writable, out_file, titles, heap, titles_at_call,
                 specs, i, html_content, spec, merged_html, handles, out_opens, log, rerun, prev>>

\* html_content = f.read(), then the with block is left and f is closed.
ReadDoc ==
  /\ pc = "read"
  /\ disk[i] \in Contents
  /\ html_content' = disk[i]
  /\ handles' = handles \ {file_paths[i]}
  /\ pc' = "extract"
  /\ UNCHANGED <<file_paths, disk, out_writable, out_file, titles, heap, titles_at_call,
                 specs, i, spec, merged_html, out_opens, log, rerun, prev>>

\* f = open(...) without the with block: a read that raises leaves f open.
ReadError_no_with ==
  /\ pc = "read"
  /\ disk[i] = Unreadable
  /\ pc' = "raised"
  /\ UNCHANGED <<file_paths, disk, out_writable, out_file, titles, heap, titles_at_call,
                 specs, i, html_content, spec, merged_html, handles, out_opens, log, rerun, prev>>

\* f.read() raises (UnicodeDecodeError): the with block closes f while the
\* exception leaves the call.
ReadError ==
  /\ pc = "read"
  /\ disk[i] = Unreadable
  /\ handles' = handles \ {file_paths[i]}
  /\ pc' = "raised"
  /\ UNCHANGED <<file_paths, disk, out_writable, out_file, titles, heap, titles_at_call,
                 specs, i, html_content, spec, merged_html, out_opens, log, rerun, prev>>

\* spec = extract_spec(html_content); specs.append(spec); print(...)
ExtractAppend ==
  /\ pc = "extract"
  /\ spec' = extract_spec(html_content)
  /\ specs' = Append(specs, extract_spec(html_content))
  /\ log' = Append(log, [kind |-> "read", pos |-> i, path |-> file_paths[i]])
  /\ i' = i + 1
  /\ pc' = "loop"
  /\ UNCHANGED <<file_paths, disk, out_writable, out_file, titles, heap, titles_at_call,
                 html_content, merged_html, handles, out_opens, rerun, prev>>

\* One visualization block: the comment, the title and the region's id.
VisDiv(k, title) ==
  [comment |-> k + 1, title |-> title, id |-> "vis" \o ToString(k + 1)]

\* for i, title in enumerate(titles[:len(file_paths)]): vis_divs += ...
vis_divs_of(ts, n) ==
  [j \in 1..Len(Slice(ts, n)) |-> VisDiv(j - 1, Slice(ts, n)[j])]

\* f"      var spec{i+1} = {spec};\n"
SpecDeclaration(k, s) == [name |-> "spec" \o ToString(k + 1), value |-> s]

spec_declarations_of(ss) == [j \in 1..Len(ss) |-> SpecDeclaration(j - 1, ss[j])]

\* The render block wired to spec{i} instead of spec{i+1}.
RenderCode_spec_off_by_one(k) ==
  [comment |-> k + 1,
   el      |-> "el" \o ToString(k + 1),
   byId    |-> "vis" \o ToString(k + 1),
   target  |-> "#vis" \o ToString(k + 1),
   spec    |-> "spec" \o ToString(k),
   onError |-> "el" \o ToString(k + 1)]

\* The render block of index i of range(len(specs)).
RenderCode(k) ==
  [comment |-> k + 1,
   el      |-> "el" \o ToString(k + 1),
   byId    |-> "vis" \o ToString(k + 1),
   target  |-> "#vis" \o ToString(k + 1),
   spec    |-> "spec" \o ToString(k + 1),
   onError |-> "el" \o ToString(k + 1)]

render_code_of(ss) == [j \in 1..Len(ss) |-> RenderCode(j - 1)]

\* The selector written for the region numbered r.
EmbedSelector(r) == "#vis" \o ToString(r) \o ".vega-embed"
DetailsSelector(r) ==
  "#vis" \o ToString(r) \o ".vega-embed details,\n    #vis" \o ToString(r)
    \o ".vega-embed details summary"

\* [f"#vis{i+1}.vega-embed" for i in range(1, len(specs) + 1)]
vega_embed_styles_of(ss) == [j \in 1..Len(ss) |-> EmbedSelector(j + 1)]
vega_embed_details_of(ss) == [j \in 1..Len(ss) |-> DetailsSelector(j + 1)]

\* The f-string merged_html: the fixed page around the five generated parts.
MergedHtml(ts, n, ss) ==
  [kind               |-> "dashboard",
   vega_embed_styles  |-> vega_embed_styles_of(ss),
   vega_embed_details |-> vega_embed_details_of(ss),
   vis_divs           |-> vis_divs_of(ts, n),
   spec_declarations  |-> spec_declarations_of(ss),
   render_code        |-> render_code_of(ss)]

\* Lines 52-191: the loop is over; the fragments and the page are built.
Assemble ==
  /\ pc = "loop"
  /\ i > Len(file_paths)
  /\ merged_html' = MergedHtml(heap[titles], Len(file_paths), specs)
  /\ pc' = "assembled"
  /\ UNCHANGED <<file_paths, disk, out_writable, out_file, titles, heap, titles_at_call,
                 specs, i, html_content, spec, handles, out_opens, log, rerun, prev>>

\* Mode 'a' instead of 'w': the file keeps what it held.
OpenedForWrite_append(old) == old

\* What open(output_path, 'w') leaves in the file: 'w' truncates it.
OpenedForWrite(old) == TruncatedDoc

\* What f.write(text) leaves in a file that held old when it was written to:
\* the text follows what the file held, which is nothing after a truncation.
Written(old, text) ==
  IF old = TruncatedDoc THEN text
  ELSE [kind |-> "concatenated", first |-> old, then |-> text]

\* The output file opened before the documents are read.
OpenOutput_before_loop ==
  /\ pc = "loop"
  /\ i = 1
  /\ out_opens = 0
  /\ out_writable
  /\ out_file' = OpenedForWrite(out_file)
  /\ out_opens' = out_opens + 1
  /\ UNCHANGED <<file_paths, disk, out_writable, titles, heap, titles_at_call, handles,
                 specs, i, html_content, spec, merged_html, log, pc, rerun, prev>>

\* with open(output_path, 'w', encoding='utf-8') as f: the open succeeds.
OpenOutput ==
  /\ pc = "assembled"
  /\ out_writable
  /\ out_file' = OpenedForWrite(out_file)
  /\ handles' = handles \cup {OutputPath}
  /\ out_opens' = out_opens + 1
  /\ pc' = "write"
  /\ UNCHANGED <<file_paths, disk, out_writable, titles, heap, titles_at_call,
                 specs, i, html_content, spec, merged_html, log, rerun, prev>>

\* open(output_path, 'w') raises (PermissionError, ...): the call is left.
OpenOutputError ==
  /\ pc = "assembled"
  /\ ~out_writable
  /\ pc' = "raised"
  /\ UNCHANGED <<file_paths, disk, out_writable, out_file, titles, heap, titles_at_call,
                 specs, i, html_content, spec, merged_html, handles, out_opens, log, rerun, prev>>

\* f.write(merged_html), the with block closes f, the summary is printed.
WriteOutput ==
  /\ pc = "write"
  /\ out_file' = Written(out_file, merged_html)
  /\ handles' = handles \ {OutputPath}
  /\ log' = Append(log, [kind |-> "summary", pos |-> Len(file_paths), path |-> OutputPath])
  /\ pc' = "done"
  /\ UNCHANGED <<file_paths, disk, out_writable, titles, heap, titles_at_call,
                 specs, i, html_content, spec, merged_html, out_opens, rerun, prev>>

\* ------------------------------------------------------------------ the caller

\* The disks that differ from d in at most one document, which d holds and
\* the other lacks (the file was removed between the two calls).
OneRemoved(d) ==
  {d} \cup {[d EXCEPT ![k] = Missing] : k \in {j \in 1..Len(d) : d[j] \in Contents}}

\* The caller (the try block of __main__) calls merge_html_files again with the
\* same file_paths, output_path and titles argument: the same list object
\* when it passed one, nothing when it passed nothing.
CallAgain ==
  /\ pc \in {"done", "raised"}
  /\ ~rerun
  /\ rerun' = TRUE
  /\ prev' = [status |-> pc, disk |-> disk, out |-> out_file, log |-> log,
              merged |-> merged_html, specs |-> specs]
  /\ disk' \in OneRemoved(disk)
  /\ titles' = IF titles_at_call = NoTitles THEN "None" ELSE "caller_list"
  /\ titles_at_call' = IF titles_at_call = NoTitles THEN NoTitles ELSE heap["caller_list"]
  /\ specs' = <<>>
  /\ i' = 1
  /\ html_content' = <<>>
  /\ spec' = <<>>
  /\ merged_html' = NoDoc
  /\ handles' = {}
  /\ out_opens' = 0
  /\ log' = <<>>
  /\ pc' = "call"
  /\ UNCHANGED <<file_paths, out_writable, out_file, heap>>

Init ==
  /\ \E n \in 0..MaxFiles :
       /\ file_paths = [j \in 1..n |-> PathAt(j)]
       /\ disk \in [1..n -> Outcomes]
  /\ out_writable \in BOOLEAN
  /\ out_file = OldDoc
  /\ \E m \in -1..MaxTitles :
       IF m = -1
       THEN /\ titles = "None"
            /\ heap = [caller_list |-> <<>>, default_list |-> <<>>]
            /\ titles_at_call = NoTitles
       ELSE /\ titles = "caller_list"
            /\ heap = [caller_list |-> [j \in 1..m |-> CallerTitle(j)], default_list |-> <<>>]
            /\ titles_at_call = [j \in 1..m |-> CallerTitle(j)]
  /\ specs = <<>>
  /\ i = 1
  /\ html_content = <<>>
  /\ spec = <<>>
  /\ merged_html = NoDoc
  /\ handles = {}
  /\ out_opens = 0
  /\ log = <<>>
  /\ pc = "call"
  /\ rerun = FALSE
  /\ prev = NoPrev

Next ==
  \/ EnterMerge
  \/ OpenDoc
  \/ OpenNotFound
  \/ OpenError
  \/ ReadDoc
  \/ ReadError
  \/ ExtractAppend
  \/ Assemble
  \/ OpenOutput
  \/ OpenOutputError
  \/ WriteOutput
  \/ CallAgain

Spec == Init /\ [][Next]_vars

\* ------------------------------------------------------------------ extract_spec on its own

\* The pieces the texts given to extract_spec on its own are built from.
TextPieces == {Prefix, <<"{">>, <<"}">>, <<";">>, <<"x">>, <<"\n">>}

RECURSIVE Flatten(_)
Flatten(pieces) ==
  IF pieces = <<>> THEN <<>> ELSE Head(pieces) \o Flatten(Tail(pieces))

Texts == UNION {{Flatten(p) : p \in [1..n -> TextPieces]} : n \in 0..MaxLen}

\* A call extract_spec(html_content) outside merge_html_files.
InitExtract ==
  /\ html_content \in Texts
  /\ spec = <<>>
  /\ pc = "extract_spec"
  /\ file_paths = <<>>
  /\ disk = <<>>
  /\ out_writable = TRUE
  /\ out_file = OldDoc
  /\ titles = "None"
  /\ heap = [caller_list |-> <<>>, default_list |-> <<>>]
  /\ titles_at_call = NoTitles
  /\ specs = <<>>
  /\ i = 1
  /\ merged_html = NoDoc
  /\ handles = {}
  /\ out_opens = 0
  /\ log = <<>>
  /\ rerun = FALSE
  /\ prev = NoPrev

ExtractOnly ==
  /\ pc = "extract_spec"
  /\ spec' = extract_spec(html_content)
  /\ pc' = "returned"
  /\ UNCHANGED <<file_paths, disk, out_writable, out_file, titles, heap, titles_at_call,
                 specs, i, html_content, merged_html, handles, out_opens, log, rerun, prev>>

SpecExtract == InitExtract /\ [][ExtractOnly]_vars

\* ------------------------------------------------------------------ properties

N == Len(file_paths)

\* The merged document exists (the loop over the documents is over).
Assembled == pc \in {"assembled", "write", "done"}

\* The titles the caller supplied: its list, or the three defaults.
Supplied == IF titles_at_call = NoTitles THEN DefaultTitles ELSE titles_at_call

\* The titles shown in the visualization blocks of a document.
ShownTitles(doc) == [j \in 1..Len(doc.vis_divs) |-> doc.vis_divs[j].title]

\* The content of output_path when the current call began.
OutAtCall == IF rerun THEN prev.out ELSE OldDoc

\* The specification the document at position j yields.
SpecOfDoc(j) == IF disk[j] = Missing THEN EmptySpec ELSE extract_spec(disk[j])

\* C1 as stated: the shown titles are N in number, the first min(M, N) are the
\* supplied ones, and the titles at positions M+1..N read "Visualization <position>".
C1_PaddedTitlesUnprefixed ==
  Assembled =>
    /\ Len(ShownTitles(merged_html)) = N
    /\ \A j \in 1..N :
         ShownTitles(merged_html)[j] =
           IF j <= Len(Supplied) THEN Supplied[j]
           ELSE "Visualization " \o ToString(j)

\* C1 (amended): the shown titles are N in number, the first min(M, N) are the
\* supplied ones unchanged, and the title at each position p in M+1..N is the
\* chart emoji U+1F4CA, a space, and "Visualization <p>".
C1_EffectiveTitles ==
  Assembled =>
    /\ Len(ShownTitles(merged_html)) = N
    /\ \A j \in 1..N :
         ShownTitles(merged_html)[j] =
           IF j <= Len(Supplied) THEN Supplied[j]
           ELSE "U+1F4CA Visualization " \o ToString(j)

\* C1 witness: a finished call with default titles and more documents than
\* defaults, so that a title was synthesized.
C1_Witness ==
  /\ pc = "done"
  /\ titles_at_call = NoTitles
  /\ N > Len(DefaultTitles)

\* C2: the written document has exactly N blocks, N declarations and N render
\* invocations; the j-th block holds region vis<j>, the j-th declaration binds
\* spec<j> to the specification of document j, the j-th invocation wires
\* region vis<j> to spec<j>.
C2_ConsistentIndexing ==
  pc = "done" =>
    /\ out_file.kind = "dashboard"
    /\ Len(out_file.vis_divs) = N
    /\ Len(out_file.spec_declarations) = N
    /\ Len(out_file.render_code) = N
    /\ \A j \in 1..N :
         /\ out_file.vis_divs[j].id = "vis" \o ToString(j)
         /\ out_file.spec_declarations[j].name = "spec" \o ToString(j)
         /\ out_file.spec_declarations[j].value = SpecOfDoc(j)
         /\ out_file.render_code[j].byId = "vis" \o ToString(j)
         /\ out_file.render_code[j].target = "#vis" \o ToString(j)
         /\ out_file.render_code[j].spec = "spec" \o ToString(j)
         /\ out_file.render_code[j].el = out_file.render_code[j].onError

\* C2 witness: a written document of at least two documents, one missing and
\* one carrying a specification.
C2_Witness ==
  /\ pc = "done"
  /\ N >= 2
  /\ \E j, k \in 1..N : disk[j] = Missing /\ disk[k] = TextA

\* C3: the selectors of the two generated style rules are those of the
\* regions 1..N and of no other region.
C3_StylesSelectEveryRegion ==
  pc = "done" =>
    /\ {out_file.vega_embed_styles[j] : j \in DOMAIN out_file.vega_embed_styles}
         = {EmbedSelector(r) : r \in 1..N}
    /\ {out_file.vega_embed_details[j] : j \in DOMAIN out_file.vega_embed_details}
         = {DetailsSelector(r) : r \in 1..N}

\* C4: no failed read leaves the call: a call is left by an exception only
\* after every document was attempted and only when the output path cannot be
\* written, and each failed document has the specification {}.
C4_NoReadAborts ==
  /\ pc = "raised" => (i > N /\ ~out_writable)
  /\ Assembled => \A j \in 1..N : disk[j] \notin Contents => specs[j] = EmptySpec

\* C5: a missing document at position k gets a warning naming its path and
\* the declaration spec<k> = {}; and when the first call found the document
\* at k and the second did not, every other position has the same
\* specification, title, block, declaration and invocation in both documents.
C5_MissingDocumentIsLocal ==
  pc = "done" =>
    \A k \in 1..N :
      disk[k] = Missing =>
        /\ \E l \in 1..Len(log) : log[l].kind = "warning" /\ log[l].path = file_paths[k]
        /\ k \in DOMAIN out_file.spec_declarations
        /\ out_file.spec_declarations[k] = [name |-> "spec" \o ToString(k), value |-> EmptySpec]
        /\ (rerun /\ prev.status = "done" /\ prev.disk[k] \in Contents) =>
              \A j \in (1..N) \ {k} :
                /\ j \in DOMAIN specs
                /\ specs[j] = prev.specs[j]
                /\ out_file.vis_divs[j] = prev.out.vis_divs[j]
                /\ out_file.spec_declarations[j] = prev.out.spec_declarations[j]
                /\ out_file.render_code[j] = prev.out.render_code[j]

\* C5 witness: the second call is done, a document the first call read is
\* now missing, and another document carries a specification.
C5_Witness ==
  /\ pc = "done"
  /\ rerun
  /\ prev.status = "done"
  /\ \E k, j \in 1..N :
       j > k /\ disk[k] = Missing /\ prev.disk[k] = TextA /\ disk[j] = TextA

\* A match of the pattern: 'var spec = ' at s, '{' after it, and '}' at e
\* followed by ';'.
IsMatch(t, s, e) ==
  /\ HasLiteralAt(t, Prefix \o <<"{">>, s)
  /\ e >= s + Len(Prefix) + 1
  /\ e + 1 <= Len(t)
  /\ t[e] = "}"
  /\ t[e + 1] = ";"

C8_SecondRunWritesSameDocument ==
  (pc = "done" /\ rerun /\ prev.status = "done" /\ disk = prev.disk) =>
     out_file = prev.out

\* C8 witness: the second call is done with unchanged documents, after a
\* first call that padded the caller's list.
C8_Witness ==
  /\ pc = "done"
  /\ rerun
  /\ prev.status = "done"
  /\ disk = prev.disk
  /\ titles = "caller_list"
  /\ N >= 2
  /\ Len(titles_at_call) = N
  /\ titles_at_call[N] # CallerTitle(N)

\* C9: at most one file handle is open at any point; none is open between
\* two documents, before the output file is opened, or once the call is over,
\* however the read step ended.
C9_AtMostOneHandle ==
  /\ Cardinality(handles) <= 1
  /\ pc = "read" => handles = {file_paths[i]}
  /\ pc = "write" => handles = {OutputPath}
  /\ pc \notin {"read", "write"} => handles = {}

\* C9 witness: the call was left by an error raised while reading the second
\* or a later document.
C9_Witness ==
  /\ pc = "raised"
  /\ i >= 2
  /\ i <= N
  /\ disk[i] = Unreadable

\* C10: the list the caller passed as titles is what it was when the call began.
C10_CallerTitlesUntouched ==
  titles_at_call # NoTitles => heap["caller_list"] = titles_at_call

====
